---- MODULE Spec2Model ----
(***************************************************************************)
(* Ernie45ReasoningParser (vllm/reasoning/ernie45_reasoning_parser.py).    *)
(*                                                                         *)
(* A text is a sequence of one-character strings, a token-id list is a     *)
(* sequence of integers.  An optional value is a sequence of length 0      *)
(* (Python None) or 1 (the value), so that the empty text and None differ. *)
(***************************************************************************)
EXTENDS Integers, Sequences, FiniteSets, TLC

VARIABLES
    model_tokenizer,     \* the tokenizer handed to the constructor
    other,               \* a second stream served by the same parser instance
    parser,              \* the fields __init__ sets on the parser instance
    previous_token_ids,  \* the six arguments of the latest streaming call
    delta_token_ids,
    current_token_ids,
    ret,                 \* the latest call and the value it returned
    phase,               \* the branch the latest dispatched streaming call took
    reasoning_acc,       \* the reasoning_content fragments so far, concatenated
    content_acc          \* the content fragments so far, concatenated

vars == <<model_tokenizer, other, parser, previous_token_ids, delta_token_ids, current_token_ids,
          ret, phase, reasoning_acc, content_acc>>

\* ---------------------------------------------------------------- bounds
\* Longest freely generated stream, in tokens.
MaxLen == 4
\* Most tokens one delta carries.
MaxDelta == 2
\* Most tokens two streams that share the parser hold together.
MaxShared == 2

\* ------------------------------------------------------ optional values
None == <<>>
Some(v) == <<v>>
\* Python's "x if x else None" on a text.
OrNone(text) == IF text = <<>> THEN None ELSE Some(text)
\* The text a host concatenates for an optional fragment: absent = empty.
Frag(opt) == IF opt = None THEN <<>> ELSE opt[1]

\* --------------------------------------------------------- marker texts
think_start_token == <<"<", "t", "h", "i", "n", "k", ">">>
think_end_token == <<"<", "/", "t", "h", "i", "n", "k", ">">>
response_start_token == <<"<", "r", "e", "s", "p", "o", "n", "s", "e", ">">>
response_end_token == <<"<", "/", "r", "e", "s", "p", "o", "n", "s", "e", ">">>
tool_call_start_token == <<"<", "t", "o", "o", "l", "_", "c", "a", "l", "l", ">">>
tool_call_end_token == <<"<", "/", "t", "o", "o", "l", "_", "c", "a", "l", "l", ">">>
\* The vocabulary entry "<0x0A>" is the byte token that decodes to a newline.
newline_token == <<"<", "0", "x", "0", "A", ">">>
NL == "\n"

\* ----------------------------------------------------------- vocabulary
\* The tokenizer's vocabulary: token id -> [piece: vocabulary key, text: decoding].
Vocab ==
    [id \in 1..10 |->
        CASE id = 1 -> [piece |-> think_start_token, text |-> think_start_token]
          [] id = 2 -> [piece |-> think_end_token, text |-> think_end_token]
          [] id = 3 -> [piece |-> response_start_token, text |-> response_start_token]
          [] id = 4 -> [piece |-> response_end_token, text |-> response_end_token]
          [] id = 5 -> [piece |-> tool_call_start_token, text |-> tool_call_start_token]
          [] id = 6 -> [piece |-> tool_call_end_token, text |-> tool_call_end_token]
          [] id = 7 -> [piece |-> newline_token, text |-> <<NL>>]
          [] id = 8 -> [piece |-> <<"a", "b", "c">>, text |-> <<"a", "b", "c">>]
          [] id = 9 -> [piece |-> <<"d", "e", "f">>, text |-> <<"d", "e", "f">>]
          [] OTHER -> [piece |-> <<"x", "y", "z">>, text |-> <<"x", "y", "z">>]]

\* Python's None where a token id is expected: no vocabulary id is negative.
NoId == -1

\* self.vocab.get(piece): the id of the piece, or None.
VocabGet(piece) ==
    IF \E id \in DOMAIN Vocab : Vocab[id].piece = piece
    THEN CHOOSE id \in DOMAIN Vocab : Vocab[id].piece = piece
    ELSE NoId

\* The text the tokenizer decodes a token-id list to.
RECURSIVE Decode(_)
Decode(ids) ==
    IF ids = <<>> THEN <<>> ELSE Vocab[Head(ids)].text \o Decode(Tail(ids))

\* ------------------------------------------------- Python str and list
\* s[i:] and s[:j] with Python's clamping and negative indices.
PyIndex(n, i) == IF i < 0 THEN (IF n + i < 0 THEN 0 ELSE n + i)
                 ELSE (IF i > n THEN n ELSE i)
SliceFrom(s, i) == SubSeq(s, PyIndex(Len(s), i) + 1, Len(s))
SliceTo(s, j) == SubSeq(s, 1, PyIndex(Len(s), j))
Slice(s, i, j) == SubSeq(s, PyIndex(Len(s), i) + 1, PyIndex(Len(s), j))

\* sub occurs in s at 0-based offset i.
MatchAt(s, sub, i) ==
    /\ i >= 0
    /\ i + Len(sub) <= Len(s)
    /\ SubSeq(s, i + 1, i + Len(sub)) = sub

\* s.find(sub): the lowest offset of sub in s, or -1.
RECURSIVE FindFrom(_, _, _)
FindFrom(s, sub, i) ==
    IF i + Len(sub) > Len(s) THEN -1
    ELSE IF MatchAt(s, sub, i) THEN i
    ELSE FindFrom(s, sub, i + 1)
Find(s, sub) == FindFrom(s, sub, 0)

\* s.rfind(sub): the highest offset of sub in s, or -1.
RECURSIVE RFindFrom(_, _, _)
RFindFrom(s, sub, i) ==
    IF i < 0 THEN -1
    ELSE IF MatchAt(s, sub, i) THEN i
    ELSE RFindFrom(s, sub, i - 1)
RFind(s, sub) == RFindFrom(s, sub, Len(s) - Len(sub))

\* "sub in s" on texts.
StrIn(sub, s) == Find(s, sub) # -1

\* s.partition(sep): <<before, sep, after>>, or <<s, "", "">> without sep.
Partition(s, sep) ==
    LET i == Find(s, sep) IN
    IF i = -1 THEN <<s, <<>>, <<>>>>
    ELSE <<SliceTo(s, i), sep, SliceFrom(s, i + Len(sep))>>

\* s.lstrip("\n").
RECURSIVE LStripNL(_)
LStripNL(s) ==
    IF s # <<>> /\ Head(s) = NL THEN LStripNL(Tail(s)) ELSE s

\* s.startswith("\n").
StartsWithNL(s) == s # <<>> /\ Head(s) = NL

\* "x in xs" on a list.
RECURSIVE ListIn(_, _)
ListIn(x, xs) ==
    IF xs = <<>> THEN FALSE
    ELSE IF Head(xs) = x THEN TRUE
    ELSE ListIn(x, Tail(xs))

\* xs.index(x), 0-based, for x in xs.
RECURSIVE ListIndex(_, _)
ListIndex(xs, x) ==
    IF Head(xs) = x THEN 0 ELSE 1 + ListIndex(Tail(xs), x)

\* ---------------------------------------------------------- __init__
\* The fields the constructor sets, when it does not raise.
NewParser ==
    [think_start_token_id |-> VocabGet(think_start_token),
     think_end_token_id |-> VocabGet(think_end_token),
     response_start_token_id |-> VocabGet(response_start_token),
     response_end_token_id |-> VocabGet(response_end_token),
     tool_call_start_token_id |-> VocabGet(tool_call_start_token),
     tool_call_end_token_id |-> VocabGet(tool_call_end_token),
     newline_token_id |-> VocabGet(newline_token),
     parser_token_ids |->
        <<VocabGet(think_start_token), VocabGet(think_end_token),
          VocabGet(response_start_token), VocabGet(response_end_token),
          VocabGet(tool_call_start_token), VocabGet(tool_call_end_token)>>]

\* What a call raised: nothing, or the name of the exception.
NoError == "none"

\* A tokenizer is given or is None; a given one holds the vocabulary entries of
\* the ids in "ids".
FullTokenizer == [given |-> TRUE, ids |-> DOMAIN Vocab]
NoTokenizer == [given |-> FALSE, ids |-> {}]

\* self.vocab.get(piece) on the vocabulary of a tokenizer.
Lookup(tokenizer, piece) ==
    IF \E id \in tokenizer.ids : Vocab[id].piece = piece
    THEN CHOOSE id \in tokenizer.ids : Vocab[id].piece = piece
    ELSE NoId

\* The fields of an instance that was not constructed.
NoParser ==
    [think_start_token_id |-> NoId, think_end_token_id |-> NoId,
     response_start_token_id |-> NoId, response_end_token_id |-> NoId,
     tool_call_start_token_id |-> NoId, tool_call_end_token_id |-> NoId,
     newline_token_id |-> NoId, parser_token_ids |-> <<>>]

\* The fields __init__ assigns from the vocabulary of a tokenizer.
ParserFields(tokenizer) ==
    [think_start_token_id |-> Lookup(tokenizer, think_start_token),
     think_end_token_id |-> Lookup(tokenizer, think_end_token),
     response_start_token_id |-> Lookup(tokenizer, response_start_token),
     response_end_token_id |-> Lookup(tokenizer, response_end_token),
     tool_call_start_token_id |-> Lookup(tokenizer, tool_call_start_token),
     tool_call_end_token_id |-> Lookup(tokenizer, tool_call_end_token),
     newline_token_id |-> Lookup(tokenizer, newline_token),
     parser_token_ids |->
        <<Lookup(tokenizer, think_start_token), Lookup(tokenizer, think_end_token),
          Lookup(tokenizer, response_start_token),
          Lookup(tokenizer, response_end_token),
          Lookup(tokenizer, tool_call_start_token),
          Lookup(tokenizer, tool_call_end_token)>>]

\* Mutant: every marker of parser_token_ids must resolve.
MissingThinkToken_AnyMarker(fields) ==
    \E i \in DOMAIN fields.parser_token_ids : fields.parser_token_ids[i] = NoId

\* "think_start_token_id is None or think_end_token_id is None".
MissingThinkToken(fields) ==
    fields.think_start_token_id = NoId \/ fields.think_end_token_id = NoId

\* __init__: what it raises, and the instance it leaves when it raises nothing.
Construct(tokenizer) ==
    IF ~tokenizer.given
    THEN [raised |-> "ValueError", fields |-> NoParser]
    ELSE IF MissingThinkToken(ParserFields(tokenizer))
    THEN [raised |-> "RuntimeError", fields |-> NoParser]
    ELSE [raised |-> NoError, fields |-> ParserFields(tokenizer)]

\* ------------------------------------------------- boundary utilities
\* xs[i] raises IndexError: the Python subscript i is outside the list.
IndexError(xs, i) == ~(-Len(xs) <= i /\ i < Len(xs))

\* input_ids.index(think_end_token_id) raises ValueError: it is evaluated and
\* the list does not hold the id.
extract_content_ids_Raises(self, input_ids) ==
    /\ ListIn(self.think_end_token_id, SliceTo(input_ids, -1))
    /\ ~ListIn(self.think_end_token_id, input_ids)

\* Mutant: the test of extract_content_ids, which leaves the last id out.
is_reasoning_end_ExceptLast(self, input_ids) ==
    ListIn(self.think_end_token_id, SliceTo(input_ids, -1))

is_reasoning_end(self, input_ids) ==
    ListIn(self.think_end_token_id, input_ids)

\* Mutant: without a marker before the last id, every id is returned.
extract_content_ids_ReturnAll(self, input_ids) ==
    IF ~ListIn(self.think_end_token_id, SliceTo(input_ids, -1))
    THEN input_ids
    ELSE SliceFrom(input_ids, ListIndex(input_ids, self.think_end_token_id) + 1)

\* Mutant: the returned slice starts at the marker, not after it.
extract_content_ids_FromMarker(self, input_ids) ==
    IF ~ListIn(self.think_end_token_id, SliceTo(input_ids, -1))
    THEN <<>>
    ELSE SliceFrom(input_ids, ListIndex(input_ids, self.think_end_token_id))

extract_content_ids(self, input_ids) ==
    IF ~ListIn(self.think_end_token_id, SliceTo(input_ids, -1))
    THEN <<>>
    ELSE SliceFrom(input_ids,
                   ListIndex(input_ids, self.think_end_token_id) + 1)

\* -------------------------------------------------- streaming results
\* The streaming call returns None, or a DeltaMessage whose fields default to None.
NoUpdate == [kind |-> "None", reasoning_content |-> None, content |-> None]
DeltaMessage(reasoning, content) ==
    [kind |-> "DeltaMessage", reasoning_content |-> reasoning, content |-> content]

\* ----------------------------- extract_reasoning_content_streaming
\* Mutant: only the two think markers are skipped.
IsSingleSpecialToken_ThinkOnly(self, delta_ids) ==
    /\ Len(delta_ids) = 1
    /\ ListIn(delta_ids[1],
              <<self.think_start_token_id, self.think_end_token_id>>)

\* "Skip single special tokens".
IsSingleSpecialToken(self, delta_ids) ==
    /\ Len(delta_ids) = 1
    /\ ListIn(delta_ids[1],
              <<self.think_start_token_id, self.think_end_token_id,
                self.response_start_token_id, self.response_end_token_id>>)

\* The branch "</think> in delta".
ThinkEndInDelta(self, delta_text) ==
    LET think_end_index == Find(delta_text, think_end_token)
        reasoning_content == SliceTo(delta_text, think_end_index)
        content0 == SliceFrom(delta_text, think_end_index + Len(think_end_token))
        content1 == LStripNL(content0)
        response_start_idx == Find(content1, response_start_token)
        response_end_idx == RFind(content1, response_end_token)
        content2 == IF response_start_idx # -1
                    THEN SliceFrom(content1,
                                   response_start_idx + Len(response_start_token))
                    ELSE content1
        content3 == IF response_end_idx # -1
                    THEN SliceTo(content2, response_end_idx)
                    ELSE content2
    IN  DeltaMessage(Some(reasoning_content), OrNone(content3))

\* Mutant: without "<response>" the content ends at the first "</response>".
TrimResponseMarkers_FirstEnd(self, delta_text, delta_ids) ==
    IF ListIn(self.response_start_token_id, delta_ids)
    THEN LET content1 == LStripNL(delta_text)
             response_start_idx == Find(content1, response_start_token)
             content2 == SliceFrom(content1,
                                   response_start_idx + Len(response_start_token))
             response_end_idx == RFind(content2, response_end_token)
         IN  IF response_end_idx # -1
             THEN SliceTo(content2, response_end_idx)
             ELSE content2
    ELSE IF ListIn(self.response_end_token_id, delta_ids)
    THEN LET response_end_idx == Find(delta_text, response_end_token)
         IN  SliceTo(delta_text, response_end_idx)
    ELSE delta_text

\* The branch "</think> in previous": the response markers are trimmed ...
TrimResponseMarkers(self, delta_text, delta_ids) ==
    IF ListIn(self.response_start_token_id, delta_ids)
    THEN LET content1 == LStripNL(delta_text)
             response_start_idx == Find(content1, response_start_token)
             content2 == SliceFrom(content1,
                                   response_start_idx + Len(response_start_token))
             response_end_idx == RFind(content2, response_end_token)
         IN  IF response_end_idx # -1
             THEN SliceTo(content2, response_end_idx)
             ELSE content2
    ELSE IF ListIn(self.response_end_token_id, delta_ids)
    THEN LET response_end_idx == RFind(delta_text, response_end_token)
         IN  SliceTo(delta_text, response_end_idx)
    ELSE delta_text

\* Mutant: the newline is removed only right after "</think>".
AfterMarkerNewline_ThinkEndOnly(self, previous_ids, delta_ids) ==
    /\ previous_ids[Len(previous_ids)] = self.think_end_token_id
    /\ Len(delta_ids) > 0
    /\ delta_ids[1] = self.newline_token_id

\* ... "remove \n after </think> or <response> or </response>" ...
AfterMarkerNewline(self, previous_ids, delta_ids) ==
    /\ ListIn(previous_ids[Len(previous_ids)],
              self.parser_token_ids)
    /\ Len(delta_ids) > 0
    /\ delta_ids[1] = self.newline_token_id

\* ... and "remove \n after </think>\n".
AfterThinkEndNewline(self, previous_ids, delta_ids) ==
    /\ Len(previous_ids) > 1
    /\ previous_ids[Len(previous_ids) - 1] = self.think_end_token_id
    /\ Len(delta_ids) > 0
    /\ delta_ids[1] = self.newline_token_id

ThinkEndInPrevious(self, delta_text, previous_ids, delta_ids) ==
    LET content1 == TrimResponseMarkers(self, delta_text, delta_ids)
        content2 == IF AfterMarkerNewline(self, previous_ids, delta_ids)
                    THEN LStripNL(content1)
                    ELSE content1
        content3 == IF AfterThinkEndNewline(self, previous_ids,
                                            delta_ids)
                    THEN LStripNL(content2)
                    ELSE content2
    IN  DeltaMessage(None, OrNone(content3))

\* Mutant: the second-to-last id is read whenever the history is not empty.
ThinkEndInPrevious_Raises_OffByOne(self, previous_ids, delta_ids) ==
    \/ IndexError(previous_ids, -1)
    \/ /\ ListIn(previous_ids[Len(previous_ids)], self.parser_token_ids)
       /\ Len(delta_ids) > 0
       /\ IndexError(delta_ids, 0)
    \/ /\ Len(previous_ids) > 0
       /\ IndexError(previous_ids, -2)

\* A subscript of the branch "</think> in previous" raises IndexError: each
\* subscript is evaluated when the conditions to its left let it be.
ThinkEndInPrevious_Raises(self, previous_ids, delta_ids) ==
    \/ IndexError(previous_ids, -1)
    \/ /\ ListIn(previous_ids[Len(previous_ids)], self.parser_token_ids)
       /\ Len(delta_ids) > 0
       /\ IndexError(delta_ids, 0)
    \/ /\ Len(previous_ids) > 1
       /\ \/ IndexError(previous_ids, -2)
          \/ /\ previous_ids[Len(previous_ids) - 1] = self.think_end_token_id
             /\ Len(delta_ids) > 0
             /\ IndexError(delta_ids, 0)

\* Mutant: the reasoning fragment loses its leading newlines.
ReasoningContinues_Stripped(delta_text) ==
    DeltaMessage(Some(LStripNL(delta_text)), None)

\* The branch "no </think> in previous or delta".
ReasoningContinues(delta_text) == DeltaMessage(Some(delta_text), None)

\* The branch of the if/elif/else a call that is not skipped takes.
Dispatch(self, previous_ids, delta_ids) ==
    IF ListIn(self.think_end_token_id, delta_ids) THEN "CROSSING"
    ELSE IF ListIn(self.think_end_token_id, previous_ids)
    THEN "RESPONDING"
    ELSE "THINKING"

\* What the streaming call raises: the subscripts are those of the skip test
\* and of the branch "</think> in previous"; find, rfind, lstrip and slices
\* raise nothing.
extract_reasoning_content_streaming_Raises(self, previous_ids, delta_ids) ==
    IF Len(delta_ids) = 1 /\ IndexError(delta_ids, 0) THEN "IndexError"
    ELSE IF IsSingleSpecialToken(self, delta_ids) THEN NoError
    ELSE IF /\ Dispatch(self, previous_ids, delta_ids) = "RESPONDING"
            /\ ThinkEndInPrevious_Raises(self, previous_ids, delta_ids)
    THEN "IndexError"
    ELSE NoError

extract_reasoning_content_streaming(self, previous_text, current_text, delta_text, previous_ids, current_ids, delta_ids) ==
    IF IsSingleSpecialToken(self, delta_ids) THEN NoUpdate
    ELSE CASE Dispatch(self, previous_ids, delta_ids) = "CROSSING" ->
                ThinkEndInDelta(self, delta_text)
           [] Dispatch(self, previous_ids, delta_ids) = "RESPONDING" ->
                ThinkEndInPrevious(self, delta_text, previous_ids, delta_ids)
           [] OTHER -> ReasoningContinues(delta_text)

\* ------------------------------------------ extract_reasoning_content
\* Mutant: the part after the separator is taken without testing for the separator.
RemoveThinkStart_Unchecked(model_output) ==
    Partition(model_output, think_start_token)[3]

\* "Check if the start token is present in the model output, remove it".
RemoveThinkStart(model_output) ==
    LET model_output_parts == Partition(model_output, think_start_token) IN
    IF model_output_parts[2] # <<>> THEN model_output_parts[3]
    ELSE model_output_parts[1]

\* Mutant: the content ends at the first </response>, not the last.
NarrowContent_FirstEnd(content) ==
    IF content # <<>>
    THEN LET start_idx == Find(content, response_start_token)
             end_idx == Find(content, response_end_token)
         IN  IF start_idx # -1 /\ end_idx # -1 /\ start_idx < end_idx
             THEN LET narrowed == Slice(content,
                                        start_idx + Len(response_start_token),
                                        end_idx)
                  IN  IF StartsWithNL(narrowed) THEN SliceFrom(narrowed, 1)
                      ELSE narrowed
             ELSE content
    ELSE content

\* Mutant: the content is narrowed whenever both markers exist, in any order.
NarrowContent_AnyOrder(content) ==
    IF content # <<>>
    THEN LET start_idx == Find(content, response_start_token)
             end_idx == RFind(content, response_end_token)
         IN  IF start_idx # -1 /\ end_idx # -1
             THEN LET narrowed == Slice(content,
                                        start_idx + Len(response_start_token),
                                        end_idx)
                  IN  IF StartsWithNL(narrowed) THEN SliceFrom(narrowed, 1)
                      ELSE narrowed
             ELSE content
    ELSE content

\* Mutant: the leading newline is removed whether or not the content was narrowed.
NarrowContent_StripAlways(content) ==
    IF content # <<>>
    THEN LET start_idx == Find(content, response_start_token)
             end_idx == RFind(content, response_end_token)
             narrowed == IF start_idx # -1 /\ end_idx # -1 /\ start_idx < end_idx
                         THEN Slice(content,
                                    start_idx + Len(response_start_token),
                                    end_idx)
                         ELSE content
         IN  IF StartsWithNL(narrowed) THEN SliceFrom(narrowed, 1) ELSE narrowed
    ELSE content

\* The content between <response> and </response>, when both exist in order.
NarrowContent(content) ==
    IF content # <<>>
    THEN LET start_idx == Find(content, response_start_token)
             end_idx == RFind(content, response_end_token)
         IN  IF start_idx # -1 /\ end_idx # -1 /\ start_idx < end_idx
             THEN LET narrowed == Slice(content,
                                        start_idx + Len(response_start_token),
                                        end_idx)
                  IN  IF StartsWithNL(narrowed) THEN SliceFrom(narrowed, 1)
                      ELSE narrowed
             ELSE content
    ELSE content

\* Mutant: the output is split at the last </think> (rpartition).
SplitAtLastThinkEnd(output) ==
    LET i == RFind(output, think_end_token) IN
    IF i = -1 THEN <<<<>>, <<>>, output>>
    ELSE <<SliceTo(output, i), think_end_token,
           SliceFrom(output, i + Len(think_end_token))>>

\* model_output.partition(self.think_end_token).
SplitAtThinkEnd(output) == Partition(output, think_end_token)

\* The pair <<reasoning_content, content>> of optional texts.
extract_reasoning_content(model_output) ==
    LET output == RemoveThinkStart(model_output) IN
    IF ~StrIn(think_end_token, output)
    THEN <<Some(output), None>>
    ELSE LET parts == SplitAtThinkEnd(output)
             reasoning_content == parts[1]
             content == NarrowContent(parts[3])
             final_content == OrNone(content)
         IN  <<Some(reasoning_content), final_content>>

\* ------------------------------------------------------ generated streams
Id(piece) == VocabGet(piece)
TextAbc == <<"a", "b", "c">>
TextDef == <<"d", "e", "f">>
TextXyz == <<"x", "y", "z">>

\* The tokens a freely generated stream draws from.
StreamTokens ==
    {Id(think_start_token), Id(think_end_token), Id(response_start_token),
     Id(response_end_token), Id(newline_token), Id(TextAbc)}

\* The three output formats the class docstring documents, tokenised.
FormatResponse ==
    <<Id(TextAbc), Id(newline_token), Id(think_end_token), Id(newline_token),
      Id(newline_token), Id(newline_token), Id(response_start_token),
      Id(newline_token), Id(TextDef), Id(newline_token), Id(response_end_token),
      Id(newline_token)>>
FormatPlain ==
    <<Id(TextAbc), Id(newline_token), Id(think_end_token), Id(newline_token), Id(TextDef)>>
FormatToolCall ==
    <<Id(TextAbc), Id(newline_token), Id(think_end_token), Id(newline_token),
      Id(newline_token), Id(newline_token), Id(tool_call_start_token),
      Id(newline_token), Id(TextXyz), Id(newline_token), Id(tool_call_end_token),
      Id(newline_token)>>
DocumentedFormats == {FormatResponse, FormatPlain, FormatToolCall}

IsPrefix(p, s) == Len(p) <= Len(s) /\ SubSeq(s, 1, Len(p)) = p

\* The deltas the model may generate next: any tokens while the stream is short,
\* and the continuation of a documented format, by any number of tokens, at any
\* length of the stream.
Deltas(current) ==
    {d \in UNION {[1..n -> StreamTokens] : n \in 0..MaxDelta} :
        Len(current) + Len(d) <= MaxLen}
    \cup
    UNION {{Slice(f, Len(current), Len(current) + n) : n \in 0..Len(f)} :
              f \in {g \in DocumentedFormats : IsPrefix(current, g)}}

\* ------------------------------------------------------------ the machine
\* Mutant: a call caches the id it treats as a newline and clears the field.
SelfAfterCall_Caching(self) == [self EXCEPT !.newline_token_id = NoId]

\* The instance after a batch, streaming or boundary call: no method assigns
\* to a field of self.
SelfAfterCall(self) == self

\* The second stream before its first call.
NoOther ==
    [previous_token_ids |-> <<>>, delta_token_ids |-> <<>>,
     ret |-> [op |-> "__init__", value |-> None, raised |-> NoError]]

Init ==
    /\ model_tokenizer = FullTokenizer
    /\ other = NoOther
    /\ parser = NewParser
    /\ previous_token_ids = <<>>
    /\ delta_token_ids = <<>>
    /\ current_token_ids = <<>>
    /\ ret = [op |-> "__init__", value |-> None, raised |-> NoError]
    /\ phase = "THINKING"
    /\ reasoning_acc = <<>>
    /\ content_acc = <<>>

\* The host appends a delta and makes the streaming call on it.
StreamCall(d) ==
    LET prev == current_token_ids
        cur == current_token_ids \o d
        raised == extract_reasoning_content_streaming_Raises(parser, prev, d)
        out == IF raised # NoError THEN NoUpdate
               ELSE extract_reasoning_content_streaming(
                        parser, Decode(prev), Decode(cur), Decode(d), prev, cur, d)
    IN  /\ previous_token_ids' = prev
        /\ delta_token_ids' = d
        /\ current_token_ids' = cur
        /\ ret' = [op |-> "stream", value |-> out, raised |-> raised]
        /\ phase' = IF out.kind = "None" THEN phase ELSE Dispatch(parser, prev, d)
        /\ reasoning_acc' = reasoning_acc \o Frag(out.reasoning_content)
        /\ content_acc' = content_acc \o Frag(out.content)
        /\ parser' = SelfAfterCall(parser)
        /\ UNCHANGED <<model_tokenizer, other>>

\* The host makes the batch call on the output generated so far.
BatchCall ==
    /\ ret' = [op |-> "batch",
               value |-> extract_reasoning_content(Decode(current_token_ids)),
               raised |-> NoError]
    /\ parser' = SelfAfterCall(parser)
    /\ UNCHANGED <<model_tokenizer, other, previous_token_ids, delta_token_ids,
                   current_token_ids, phase, reasoning_acc, content_acc>>

IsReasoningEndCall ==
    /\ ret' = [op |-> "is_reasoning_end",
               value |-> is_reasoning_end(parser, current_token_ids),
               raised |-> NoError]
    /\ parser' = SelfAfterCall(parser)
    /\ UNCHANGED <<model_tokenizer, other, previous_token_ids, delta_token_ids,
                   current_token_ids, phase, reasoning_acc, content_acc>>

ExtractContentIdsCall ==
    /\ ret' = IF extract_content_ids_Raises(parser, current_token_ids)
               THEN [op |-> "extract_content_ids", value |-> <<>>,
                     raised |-> "ValueError"]
               ELSE [op |-> "extract_content_ids",
                     value |-> extract_content_ids(parser, current_token_ids),
                     raised |-> NoError]
    /\ parser' = SelfAfterCall(parser)
    /\ UNCHANGED <<model_tokenizer, other, previous_token_ids, delta_token_ids,
                   current_token_ids, phase, reasoning_acc, content_acc>>

\* A generation that is streamed and, at any point, parsed as a whole.
Next ==
    \/ \E d \in Deltas(current_token_ids) : StreamCall(d)
    \/ BatchCall

Spec == Init /\ [][Next]_vars

\* A generation whose token ids the generation control queries as they grow.
NextBoundary ==
    \/ \E d \in Deltas(current_token_ids) : StreamCall(d)
    \/ IsReasoningEndCall
    \/ ExtractContentIdsCall

SpecBoundary == Init /\ [][NextBoundary]_vars

\* The host makes the streaming call for a delta of the second stream.
OtherStreamCall(d) ==
    LET prev == other.previous_token_ids \o other.delta_token_ids
        cur == prev \o d
        raised == extract_reasoning_content_streaming_Raises(parser, prev, d)
        out == IF raised # NoError THEN NoUpdate
               ELSE extract_reasoning_content_streaming(
                        parser, Decode(prev), Decode(cur), Decode(d), prev, cur, d)
    IN  /\ other' = [previous_token_ids |-> prev, delta_token_ids |-> d,
                     ret |-> [op |-> "stream", value |-> out, raised |-> raised]]
        /\ parser' = SelfAfterCall(parser)
        /\ UNCHANGED <<model_tokenizer, previous_token_ids, delta_token_ids,
                       current_token_ids, ret, phase, reasoning_acc, content_acc>>

\* The tokens the two streams hold together after one of them grows by d.
SharedLen(d) ==
    Len(current_token_ids) + Len(other.previous_token_ids)
        + Len(other.delta_token_ids) + Len(d)

\* Two generations served by one parser instance, their calls interleaved in
\* any order, with batch calls and boundary queries in between.
NextInterleaved ==
    \/ \E d \in Deltas(current_token_ids) : SharedLen(d) <= MaxShared /\ StreamCall(d)
    \/ \E d \in Deltas(other.previous_token_ids \o other.delta_token_ids) :
           SharedLen(d) <= MaxShared /\ OtherStreamCall(d)
    \/ BatchCall
    \/ IsReasoningEndCall
    \/ ExtractContentIdsCall

SpecInterleaved == Init /\ [][NextInterleaved]_vars

\* The tokenizers a host may construct the parser with: none, or one whose
\* vocabulary holds any of the seven marker pieces.
MarkerPieces ==
    {think_start_token, think_end_token, response_start_token, response_end_token,
     tool_call_start_token, tool_call_end_token, newline_token}
Tokenizers ==
    {NoTokenizer} \cup
    {[given |-> TRUE,
      ids |-> {id \in DOMAIN Vocab :
                  Vocab[id].piece \in pieces \/ Vocab[id].piece \notin MarkerPieces}] :
        pieces \in SUBSET MarkerPieces}

InitConstruct ==
    /\ model_tokenizer \in Tokenizers
    /\ other = NoOther
    /\ parser = NoParser
    /\ previous_token_ids = <<>>
    /\ delta_token_ids = <<>>
    /\ current_token_ids = <<>>
    /\ ret = [op |-> "new", value |-> None, raised |-> NoError]
    /\ phase = "THINKING"
    /\ reasoning_acc = <<>>
    /\ content_acc = <<>>

\* The host constructs the parser.
ConstructCall ==
    /\ ret.op = "new"
    /\ parser' = Construct(model_tokenizer).fields
    /\ ret' = [op |-> "__init__", value |-> None,
               raised |-> Construct(model_tokenizer).raised]
    /\ UNCHANGED <<model_tokenizer, other, previous_token_ids, delta_token_ids,
                   current_token_ids, phase, reasoning_acc, content_acc>>

NextConstruct == ConstructCall

SpecConstruct == InitConstruct /\ [][NextConstruct]_vars

TypeOK ==
    /\ current_token_ids = previous_token_ids \o delta_token_ids
    /\ phase \in {"THINKING", "CROSSING", "RESPONDING"}

\* ================================================================ claims
\* The complete output generated so far, as text.
CurrentText == Decode(current_token_ids)

\* sub occurs somewhere in s.
Occurs(sub, s) == \E i \in 0..Len(s) : MatchAt(s, sub, i)
\* i is the offset of the first, of the last, occurrence of sub in s.
FirstAt(s, sub, i) == MatchAt(s, sub, i) /\ \A j \in 0..(i - 1) : ~MatchAt(s, sub, j)
LastAt(s, sub, i) == MatchAt(s, sub, i) /\ \A j \in (i + 1)..Len(s) : ~MatchAt(s, sub, j)
\* The text after offset i, and the text before it.
After(s, i) == SubSeq(s, i + 1, Len(s))
Before(s, i) == SubSeq(s, 1, i)
\* A text as the batch call reports content: absent when empty.
AbsentIfEmpty(text) == IF Len(text) = 0 THEN None ELSE Some(text)
\* A text with one leading newline removed, if it has one.
WithoutOneNewline(text) ==
    IF Len(text) > 0 /\ text[1] = NL THEN After(text, 1) ELSE text

\* C1 (as claimed): whenever the batch call parses the output generated so far,
\* its reasoning_content is the concatenation of the reasoning_content fragments
\* the streaming calls returned, and its content the concatenation of their
\* content fragments (an absent fragment counting as empty).
C1_ReplayEqualsBatch ==
    ret.op = "batch" =>
        /\ reasoning_acc = Frag(ret.value[1])
        /\ content_acc = Frag(ret.value[2])

\* C2 (as claimed): the batch call on an output without "</think>" returns the
\* whole output as reasoning_content and no content.
C2_NoThinkEndWholeInput ==
    (ret.op = "batch" /\ ~Occurs(think_end_token, CurrentText)) =>
        ret.value = <<Some(CurrentText), None>>

\* C2 (amended): the batch call on an output with neither "</think>" nor
\* "<think>" returns the whole output as reasoning_content and no content.
C2_NoThinkMarkerWholeInput ==
    (/\ ret.op = "batch"
     /\ ~Occurs(think_end_token, CurrentText)
     /\ ~Occurs(think_start_token, CurrentText)) =>
        ret.value = <<Some(CurrentText), None>>

C2_Witness ==
    /\ ret.op = "batch"
    /\ ~Occurs(think_end_token, CurrentText)
    /\ ~Occurs(think_start_token, CurrentText)
    /\ Occurs(response_start_token, CurrentText)
    /\ Occurs(TextAbc, CurrentText)
    /\ ret.value = <<Some(CurrentText), None>>

\* C3 (as claimed): for every way to write the output as R + "</think>" + C with
\* no response marker in C, the batch call returns reasoning_content R, never
\* absent, and content C, absent when C is empty.
C3_SplitAtThinkEnd ==
    ret.op = "batch" =>
        \A i \in 0..Len(CurrentText) :
            (/\ MatchAt(CurrentText, think_end_token, i)
             /\ ~Occurs(response_start_token,
                        After(CurrentText, i + Len(think_end_token)))
             /\ ~Occurs(response_end_token,
                        After(CurrentText, i + Len(think_end_token)))) =>
                ret.value = <<Some(Before(CurrentText, i)),
                              AbsentIfEmpty(After(CurrentText,
                                                  i + Len(think_end_token)))>>

\* C3 (amended): the same, for R holding neither "<think>" nor "</think>" and C
\* holding no "<think>" either.
C3_SplitAtOnlyThinkEnd ==
    ret.op = "batch" =>
        \A i \in 0..Len(CurrentText) :
            (/\ MatchAt(CurrentText, think_end_token, i)
             /\ ~Occurs(think_start_token, Before(CurrentText, i))
             /\ ~Occurs(think_end_token, Before(CurrentText, i))
             /\ ~Occurs(think_start_token,
                        After(CurrentText, i + Len(think_end_token)))
             /\ ~Occurs(response_start_token,
                        After(CurrentText, i + Len(think_end_token)))
             /\ ~Occurs(response_end_token,
                        After(CurrentText, i + Len(think_end_token)))) =>
                ret.value = <<Some(Before(CurrentText, i)),
                              AbsentIfEmpty(After(CurrentText,
                                                  i + Len(think_end_token)))>>

\* An output "</think>" + C whose C holds a second "</think>" and starts with a
\* newline: the reasoning is the empty text, not absent, and C is kept whole.
C3_Witness ==
    /\ ret.op = "batch"
    /\ current_token_ids =
           <<Id(think_end_token), Id(newline_token), Id(think_end_token), Id(TextAbc)>>
    /\ ret.value = <<Some(<<>>), Some(After(CurrentText, Len(think_end_token)))>>

\* The content C4 describes for the text "rest" that follows a "</think>": the
\* text strictly between the first "<response>" at offset f and the last
\* "</response>" at offset l, less one leading newline, absent when empty.
BetweenResponseMarkers(rest, f, l) ==
    AbsentIfEmpty(WithoutOneNewline(
        SubSeq(rest, f + Len(response_start_token) + 1, l)))

\* The outputs C4 is about: the text after the first "</think>" (at offset i)
\* holds a first "<response>" (at f) before its last "</response>" (at l).
NarrowingCase(text, i, f, l) ==
    /\ FirstAt(text, think_end_token, i)
    /\ FirstAt(After(text, i + Len(think_end_token)), response_start_token, f)
    /\ LastAt(After(text, i + Len(think_end_token)), response_end_token, l)
    /\ f < l

\* C4 (as claimed): when the text after the first "</think>" holds a first
\* "<response>" before its last "</response>", the batch call's content is the
\* text strictly between the two, less one leading newline, absent when empty;
\* and the documented response format yields ("abc\n", "def\n").
C4_ContentBetweenResponseMarkers ==
    ret.op = "batch" =>
        /\ \A i \in 0..Len(CurrentText) :
               FirstAt(CurrentText, think_end_token, i) =>
                   \A f \in 0..Len(CurrentText) :
                       FirstAt(After(CurrentText, i + Len(think_end_token)),
                               response_start_token, f) =>
                           \A l \in (f + 1)..Len(CurrentText) :
                               NarrowingCase(CurrentText, i, f, l) =>
                                   ret.value[2] = BetweenResponseMarkers(
                                       After(CurrentText, i + Len(think_end_token)),
                                       f, l)
        /\ current_token_ids = FormatResponse =>
               ret.value = <<Some(TextAbc \o <<NL>>), Some(TextDef \o <<NL>>)>>

\* C4 (amended): the same, for outputs with no "<think>" after the first
\* "</think>".
C4_ContentBetweenResponseMarkersNoRestart ==
    ret.op = "batch" =>
        /\ \A i \in 0..Len(CurrentText) :
               (/\ FirstAt(CurrentText, think_end_token, i)
                /\ ~Occurs(think_start_token,
                           After(CurrentText, i + Len(think_end_token)))) =>
                   \A f \in 0..Len(CurrentText) :
                       FirstAt(After(CurrentText, i + Len(think_end_token)),
                               response_start_token, f) =>
                           \A l \in (f + 1)..Len(CurrentText) :
                               NarrowingCase(CurrentText, i, f, l) =>
                                   ret.value[2] = BetweenResponseMarkers(
                                       After(CurrentText, i + Len(think_end_token)),
                                       f, l)
        /\ current_token_ids = FormatResponse =>
               ret.value = <<Some(TextAbc \o <<NL>>), Some(TextDef \o <<NL>>)>>

\* The documented response format, parsed whole: the content is narrowed to the
\* text between the markers and loses the newline that follows "<response>".
C4_Witness ==
    /\ ret.op = "batch"
    /\ current_token_ids = FormatResponse
    /\ \E i, f, l \in 0..Len(CurrentText) : NarrowingCase(CurrentText, i, f, l)
    /\ ret.value[2] = Some(TextDef \o <<NL>>)

\* C5 (as claimed): the batch call turns "abc\n</think>\ndef" into
\* ("abc\n", "def") and "abc\n</think>\n\n\n<tool_call>\nxyz\n</tool_call>\n"
\* into ("abc\n", "\n\n<tool_call>\nxyz\n</tool_call>\n").
C5_DocumentedFormats ==
    ret.op = "batch" =>
        /\ current_token_ids = FormatPlain =>
               ret.value = <<Some(TextAbc \o <<NL>>), Some(TextDef)>>
        /\ current_token_ids = FormatToolCall =>
               ret.value = <<Some(TextAbc \o <<NL>>),
                             Some(<<NL, NL>> \o tool_call_start_token \o <<NL>>
                                  \o TextXyz \o <<NL>> \o tool_call_end_token
                                  \o <<NL>>)>>

\* C5 (amended): the batch call keeps every newline that follows "</think>":
\* "abc\n</think>\ndef" becomes ("abc\n", "\ndef") and
\* "abc\n</think>\n\n\n<tool_call>\nxyz\n</tool_call>\n" becomes
\* ("abc\n", "\n\n\n<tool_call>\nxyz\n</tool_call>\n").
C5_DocumentedFormatsUnstripped ==
    ret.op = "batch" =>
        /\ current_token_ids = FormatPlain =>
               ret.value = <<Some(TextAbc \o <<NL>>), Some(<<NL>> \o TextDef)>>
        /\ current_token_ids = FormatToolCall =>
               ret.value = <<Some(TextAbc \o <<NL>>),
                             Some(<<NL, NL, NL>> \o tool_call_start_token \o <<NL>>
                                  \o TextXyz \o <<NL>> \o tool_call_end_token
                                  \o <<NL>>)>>

C5_Witness ==
    /\ ret.op = "batch"
    /\ current_token_ids = FormatToolCall
    /\ Len(Frag(ret.value[2])) = Len(CurrentText) - Len(TextAbc) - 1
                                    - Len(think_end_token)

\* The ids of the four markers a delta of one token is skipped for.
SkippedMarkerIds ==
    {Id(think_start_token), Id(think_end_token),
     Id(response_start_token), Id(response_end_token)}

\* C6: a streaming call whose delta is exactly one token, the id of "<think>",
\* "</think>", "<response>" or "</response>", returns no update, whatever came
\* before: neither a reasoning_content nor a content fragment.
C6_SingleMarkerSuppressed ==
    (/\ ret.op = "stream"
     /\ Len(delta_token_ids) = 1
     /\ delta_token_ids[1] \in SkippedMarkerIds) =>
        /\ ret.value.kind = "None"
        /\ ret.value.reasoning_content = None
        /\ ret.value.content = None

\* A lone "</response>" after "</think>" and some content is not echoed.
C6_Witness ==
    /\ ret.op = "stream"
    /\ delta_token_ids = <<Id(response_end_token)>>
    /\ Len(previous_token_ids) >= 2
    /\ \E i \in DOMAIN previous_token_ids :
           previous_token_ids[i] = Id(think_end_token)
    /\ content_acc # <<>>
    /\ ret.value = NoUpdate

PhaseRank(p) ==
    CASE p = "THINKING" -> 0
      [] p = "CROSSING" -> 1
      [] p = "RESPONDING" -> 2

\* C7 (as claimed): from one streaming call of a stream to the next the phase
\* never moves backward, and after a RESPONDING call every later call is
\* RESPONDING.
C7_PhaseMonotone ==
    [][/\ PhaseRank(phase) <= PhaseRank(phase')
       /\ phase = "RESPONDING" => phase' = "RESPONDING"]_vars

\* The ids of a token-id list at the positions before the last one.
BeforeLast(ids) == IF ids = <<>> THEN <<>> ELSE SubSeq(ids, 1, Len(ids) - 1)
\* id is one of the ids of the list.
HasId(ids, id) == \E i \in DOMAIN ids : ids[i] = id

\* C8 (as claimed): extract_content_ids returns the empty sequence for every
\* token-id sequence whose last element is the id of "</think>".
C8_EmptyWhenThinkEndLast ==
    (/\ ret.op = "extract_content_ids"
     /\ current_token_ids # <<>>
     /\ current_token_ids[Len(current_token_ids)] = Id(think_end_token)) =>
        ret.value = <<>>

\* C8 (amended): extract_content_ids returns the empty sequence for every
\* token-id sequence whose last element is the id of "</think>" and that holds
\* no earlier "</think>".
C8_EmptyWhenOnlyThinkEndLast ==
    (/\ ret.op = "extract_content_ids"
     /\ current_token_ids # <<>>
     /\ current_token_ids[Len(current_token_ids)] = Id(think_end_token)
     /\ ~HasId(BeforeLast(current_token_ids), Id(think_end_token))) =>
        ret.value = <<>>

C8_Witness ==
    /\ ret.op = "extract_content_ids"
    /\ Len(current_token_ids) >= 3
    /\ current_token_ids[Len(current_token_ids)] = Id(think_end_token)
    /\ ~HasId(BeforeLast(current_token_ids), Id(think_end_token))
    /\ ret.value = <<>>

\* C9: when the id of "</think>" occurs before the last position,
\* extract_content_ids returns the ids after its first occurrence, in order;
\* otherwise it returns the empty sequence.
C9_SuffixAfterFirstThinkEnd ==
    ret.op = "extract_content_ids" =>
        IF HasId(BeforeLast(current_token_ids), Id(think_end_token))
        THEN \A i \in DOMAIN current_token_ids :
                 (/\ current_token_ids[i] = Id(think_end_token)
                  /\ ~HasId(SubSeq(current_token_ids, 1, i - 1),
                            Id(think_end_token))) =>
                     ret.value = After(current_token_ids, i)
        ELSE ret.value = <<>>

\* Two "</think>" before the last id: the suffix starts after the first one and
\* holds the second.
C9_Witness ==
    /\ ret.op = "extract_content_ids"
    /\ Len(current_token_ids) = 4
    /\ current_token_ids[1] # Id(think_end_token)
    /\ current_token_ids[2] = Id(think_end_token)
    /\ current_token_ids[3] = Id(think_end_token)
    /\ ret.value = SubSeq(current_token_ids, 3, 4)

\* C10: is_reasoning_end is true exactly when the id of "</think>" is among the
\* token ids, so false for no ids at all; and once it is true of a stream it is
\* true of the stream however it grows.
C10_ReasoningEndIffThinkEnd ==
    /\ [](ret.op = "is_reasoning_end" =>
            /\ ret.value = HasId(current_token_ids, Id(think_end_token))
            /\ current_token_ids = <<>> => ret.value = FALSE)
    /\ [][is_reasoning_end(parser, current_token_ids) =>
            is_reasoning_end(parser, current_token_ids')]_vars

\* The stream ends with its only "</think>" and the query answers TRUE.
C10_Witness ==
    /\ ret.op = "is_reasoning_end"
    /\ Len(current_token_ids) >= 2
    /\ current_token_ids[Len(current_token_ids)] = Id(think_end_token)
    /\ ~HasId(BeforeLast(current_token_ids), Id(think_end_token))
    /\ ret.value = TRUE

\* Whether the vocabulary of the tokenizer holds an entry for the piece.
Resolves(tokenizer, piece) ==
    tokenizer.given /\ \E id \in tokenizer.ids : Vocab[id].piece = piece

\* C11: construction raises whenever the vocabulary has no id for "<think>" or
\* none for "</think>", and raises nothing whenever it has both, whichever of
\* the other five markers it has; the instance then holds the ids looked up.
C11_ConstructionNeedsThinkMarkers ==
    ret.op = "__init__" =>
        /\ (~Resolves(model_tokenizer, think_start_token)
            \/ ~Resolves(model_tokenizer, think_end_token)) =>
               ret.raised # NoError /\ parser = NoParser
        /\ (Resolves(model_tokenizer, think_start_token)
            /\ Resolves(model_tokenizer, think_end_token)) =>
               /\ ret.raised = NoError
               /\ parser.think_start_token_id = Id(think_start_token)
               /\ parser.think_end_token_id = Id(think_end_token)

\* Both think markers resolve and none of the other five: construction succeeds.
C11_Witness ==
    /\ ret.op = "__init__"
    /\ ret.raised = NoError
    /\ Resolves(model_tokenizer, think_start_token)
    /\ Resolves(model_tokenizer, think_end_token)
    /\ \A piece \in MarkerPieces \ {think_start_token, think_end_token} :
           ~Resolves(model_tokenizer, piece)
    /\ parser.response_start_token_id = NoId
    /\ parser.newline_token_id = NoId

\* C12 (as claimed): in every record a streaming call returns, in any phase,
\* neither reasoning_content nor content is the empty string; an empty fragment
\* is absent.
C12_NoEmptyFragment ==
    (ret.op = "stream" /\ ret.value.kind = "DeltaMessage") =>
        /\ ret.value.reasoning_content # Some(<<>>)
        /\ ret.value.content # Some(<<>>)

\* The six arguments of a streaming call satisfy the concatenation invariants.
ConcatenationInvariants ==
    current_token_ids = previous_token_ids \o delta_token_ids

\* C13: after a successful construction no call raises: the batch call returns
\* a pair for the output generated so far, and a streaming call whose arguments
\* satisfy the concatenation invariants returns a record or None and raises no
\* index or lookup error, nor does a boundary query.
C13_NoCallRaises ==
    /\ Len(extract_reasoning_content(CurrentText)) = 2
    /\ (ret.op = "stream" /\ ConcatenationInvariants) =>
           /\ ret.raised = NoError
           /\ ret.value.kind \in {"None", "DeltaMessage"}
    /\ ret.op \in {"is_reasoning_end", "extract_content_ids"} =>
           ret.raised = NoError

\* A streaming call on a history of length one that holds "</think>" with an
\* empty delta: the branch that subscripts the history from its end.
C13_Witness ==
    /\ ret.op = "stream"
    /\ ret.raised = NoError
    /\ previous_token_ids = <<Id(think_end_token)>>
    /\ delta_token_ids = <<>>
    /\ ret.value = DeltaMessage(None, None)

\* What a stream gets from a streaming call when it runs alone on a freshly
\* constructed parser.
AloneRet(previous_ids, delta_ids) ==
    LET raised == extract_reasoning_content_streaming_Raises(NewParser, previous_ids, delta_ids)
    IN  [op |-> "stream",
         value |-> IF raised # NoError THEN NoUpdate
                   ELSE extract_reasoning_content_streaming(
                            NewParser, Decode(previous_ids),
                            Decode(previous_ids \o delta_ids), Decode(delta_ids),
                            previous_ids, previous_ids \o delta_ids, delta_ids),
         raised |-> raised]

WithoutLeadingNewlines(text) ==
    LET k == CHOOSE n \in 0..Len(text) :
                 /\ \A j \in 1..n : text[j] = NL
                 /\ n = Len(text) \/ text[n + 1] # NL
    IN  After(text, k)
\* A text without everything up to and including the first occurrence of sub.
AfterFirst(text, sub) ==
    IF Occurs(sub, text)
    THEN After(text, (CHOOSE i \in 0..Len(text) : FirstAt(text, sub, i)) + Len(sub))
    ELSE text
\* A text without everything from the last occurrence of sub onward.
UpToLast(text, sub) ==
    IF Occurs(sub, text)
    THEN Before(text, CHOOSE i \in 0..Len(text) : LastAt(text, sub, i))
    ELSE text
\* The last call was a streaming call that was not skipped as a lone marker.
Emitted ==
    /\ ret.op = "stream"
    /\ ~(Len(delta_token_ids) = 1 /\ delta_token_ids[1] \in SkippedMarkerIds)
\* The three phases of a streaming call, by where the think_end id is.
Crossing == Emitted /\ HasId(delta_token_ids, Id(think_end_token))
Responding ==
    /\ Emitted
    /\ ~HasId(delta_token_ids, Id(think_end_token))
    /\ HasId(previous_token_ids, Id(think_end_token))
Thinking ==
    /\ Emitted
    /\ ~HasId(delta_token_ids, Id(think_end_token))
    /\ ~HasId(previous_token_ids, Id(think_end_token))

\* C15 (as claimed): in a CROSSING call reasoning_content is the delta text
\* before "</think>", and content is the text after it without its leading
\* newlines, then without everything up to and including the first "<response>",
\* then without everything from the last "</response>" onward (absent if empty):
\* with both markers, exactly the text between them.
C15_CrossingSplitsDelta ==
    Crossing =>
        LET text == Decode(delta_token_ids)
            i == CHOOSE n \in 0..Len(text) : FirstAt(text, think_end_token, n)
            rest == WithoutLeadingNewlines(After(text, i + Len(think_end_token)))
        IN  /\ ret.value.reasoning_content = Some(Before(text, i))
            /\ ret.value.content =
                   AbsentIfEmpty(UpToLast(AfterFirst(rest, response_start_token),
                                         response_end_token))

\* The text holds no first "<response>" that lies before its last "</response>":
\* a marker is missing, or the last "</response>" does not come after it.
MalformedNesting(rest) ==
    ~\E f, l \in 0..Len(rest) :
        /\ FirstAt(rest, response_start_token, f)
        /\ LastAt(rest, response_end_token, l)
        /\ f < l

\* C16 (as claimed): when the text after the first "</think>" is malformed in
\* that sense, the batch call returns that text as content, not narrowed and
\* with its leading newline kept, absent only if it is empty.
C16_MalformedNestingFallback ==
    ret.op = "batch" =>
        \A i \in 0..Len(CurrentText) :
            (/\ FirstAt(CurrentText, think_end_token, i)
             /\ MalformedNesting(After(CurrentText, i + Len(think_end_token)))) =>
                /\ ret.raised = NoError
                /\ ret.value[2] =
                       AbsentIfEmpty(After(CurrentText, i + Len(think_end_token)))

\* C16 (amended): the same, for outputs with no "<think>" after the first
\* "</think>".
C16_MalformedNestingFallbackNoRestart ==
    ret.op = "batch" =>
        \A i \in 0..Len(CurrentText) :
            (/\ FirstAt(CurrentText, think_end_token, i)
             /\ ~Occurs(think_start_token,
                        After(CurrentText, i + Len(think_end_token)))
             /\ MalformedNesting(After(CurrentText, i + Len(think_end_token)))) =>
                /\ ret.raised = NoError
                /\ ret.value[2] =
                       AbsentIfEmpty(After(CurrentText, i + Len(think_end_token)))

\* "</think>" followed by "</response>", a newline and "<response>": both markers
\* in the wrong order, and the content is the whole text after "</think>".
C16_Witness ==
    /\ ret.op = "batch"
    /\ current_token_ids = <<Id(think_end_token), Id(newline_token),
                             Id(response_end_token), Id(response_start_token)>>
    /\ MalformedNesting(After(CurrentText, Len(think_end_token)))
    /\ ret.value[2] = Some(<<NL>> \o response_end_token \o response_start_token)

\* The delta text of a RESPONDING call with its response markers trimmed: with
\* the id of "<response>" in the delta, without its leading newlines, without
\* everything up to and including the first "<response>" and without everything
\* from the last "</response>" onward; else, with the id of "</response>" in the
\* delta, without everything from the last "</response>" onward.
TrimmedDelta ==
    LET text == Decode(delta_token_ids) IN
    IF HasId(delta_token_ids, Id(response_start_token))
    THEN UpToLast(AfterFirst(WithoutLeadingNewlines(text), response_start_token),
                  response_end_token)
    ELSE IF HasId(delta_token_ids, Id(response_end_token))
    THEN UpToLast(text, response_end_token)
    ELSE text

\* The ids of the six structural markers.
StructuralMarkerIds ==
    {Id(think_start_token), Id(think_end_token), Id(response_start_token),
     Id(response_end_token), Id(tool_call_start_token), Id(tool_call_end_token)}
\* The first token of the delta is the newline marker and (rule A) the last token
\* of the history is a structural marker or (rule B) its second-to-last token is
\* "</think>".
NewlineFirst == delta_token_ids # <<>> /\ delta_token_ids[1] = Id(newline_token)
RuleA ==
    /\ NewlineFirst
    /\ previous_token_ids # <<>>
    /\ previous_token_ids[Len(previous_token_ids)] \in StructuralMarkerIds
RuleB ==
    /\ NewlineFirst
    /\ Len(previous_token_ids) >= 2
    /\ previous_token_ids[Len(previous_token_ids) - 1] = Id(think_end_token)

\* C17 (as claimed): a RESPONDING call returns a record without
\* reasoning_content whose content is the delta text with its response markers
\* trimmed, absent if that is empty.
C17_RespondingTrimsMarkers ==
    Responding =>
        /\ ret.value.reasoning_content = None
        /\ ret.value.content = AbsentIfEmpty(TrimmedDelta)

\* C17 (amended): the same, the trimmed text losing its leading newlines when
\* the delta starts with the newline token right after a structural marker or
\* one token after "</think>".
C17_RespondingTrimsMarkersAndNewlines ==
    Responding =>
        /\ ret.value.reasoning_content = None
        /\ ret.value.content =
               AbsentIfEmpty(IF RuleA \/ RuleB
                             THEN WithoutLeadingNewlines(TrimmedDelta)
                             ELSE TrimmedDelta)

\* A RESPONDING delta with two "</response>": the content ends at the last one.
C17_Witness ==
    /\ Responding
    /\ delta_token_ids = <<Id(response_end_token), Id(response_end_token)>>
    /\ ret.value = DeltaMessage(None, Some(response_end_token))

\* C18: a THINKING call returns a record whose reasoning_content is the delta
\* text, character for character, and whose content is absent.
C18_ThinkingEchoesDelta ==
    Thinking =>
        /\ ret.value.kind = "DeltaMessage"
        /\ ret.value.reasoning_content = Some(Decode(delta_token_ids))
        /\ ret.value.content = None

\* A THINKING delta that starts with a newline and holds "<response>": the text
\* is passed on as reasoning with both.
C18_Witness ==
    /\ Thinking
    /\ delta_token_ids = <<Id(newline_token), Id(response_start_token)>>
    /\ ret.value = DeltaMessage(Some(<<NL>> \o response_start_token), None)

\* The number of newline characters a text starts with.
LeadingNewlines(text) == Len(text) - Len(WithoutLeadingNewlines(text))

\* C19: in a RESPONDING call whose delta starts with the newline token, when the
\* last token of the history is a structural marker (rule A) or its
\* second-to-last token is "</think>" (rule B), the content is the trimmed delta
\* text without its leading newlines, absent if nothing remains; when neither
\* rule applies and the delta holds no "<response>" id, the content keeps every
\* leading newline of the delta text.
C19_NewlineSuppression ==
    Responding =>
        /\ (RuleA \/ RuleB) =>
               /\ ret.value.content =
                      AbsentIfEmpty(WithoutLeadingNewlines(TrimmedDelta))
               /\ ret.value.content # None => ret.value.content[1][1] # NL
        /\ (/\ ~RuleA
            /\ ~RuleB
            /\ ~HasId(delta_token_ids, Id(response_start_token))) =>
               LeadingNewlines(Frag(ret.value.content)) =
                   LeadingNewlines(Decode(delta_token_ids))

\* Rule B without rule A: "</think>", then "abc", then a delta "\n" "abc" whose
\* newline is stripped.
C19_Witness ==
    /\ Responding
    /\ ~RuleA
    /\ RuleB
    /\ previous_token_ids = <<Id(think_end_token), Id(TextAbc)>>
    /\ delta_token_ids = <<Id(newline_token), Id(TextAbc)>>
    /\ ret.value.content = Some(TextAbc)

\* The number of times id occurs among the ids.
CountId(ids, id) == Cardinality({i \in DOMAIN ids : ids[i] = id})

\* C20 (as claimed): for a stream with no "<think>" token and at most one
\* "</think>" token, however it is split into deltas, the reasoning fragments
\* of the streaming calls concatenate to the reasoning_content the batch call
\* returns for the whole text, and no call made after the delta that holds
\* "</think>" returns a reasoning fragment.
C20_ReasoningRefinesBatch ==
    (/\ ~HasId(current_token_ids, Id(think_start_token))
     /\ CountId(current_token_ids, Id(think_end_token)) <= 1) =>
        /\ Some(reasoning_acc) = extract_reasoning_content(CurrentText)[1]
        /\ (ret.op = "stream" /\ HasId(previous_token_ids, Id(think_end_token))) =>
               ret.value.reasoning_content = None

====
